---- MODULE Spec2Model ----
(***************************************************************************)
(* Gajni Memory: the App component (src/unnamed/part_000).                 *)
(*                                                                         *)
(* State: the component's useState cells, the localStorage entry           *)
(* 'gajni-memories', the platform's recognition and synthesis devices and  *)
(* the clock.  One action per event handler / device callback; an action   *)
(* includes the re-render it causes and the effects React runs after that  *)
(* render (the save effect on [memories]).                                 *)
(*                                                                         *)
(* JavaScript strings are sequences of one-character strings.              *)
(***************************************************************************)
EXTENDS Integers, Sequences, FiniteSets, TLC

\* ------------------------------------------------------------------ bounds
MaxMemories == 3
MaxClock == 2
MaxVoices == 2
\* storage writes that may fail (setItem throwing) in one run
MaxWriteFailures == 1
\* clock ticks per displayed second: toLocaleString() has a coarser
\* resolution than Date.now()
TicksPerSecond == 2

\* ------------------------------------------------------------ JS strings
Whitespace == {" ", "\t"}

RECURSIVE TrimStart(_)
TrimStart(s) ==
    IF s = <<>> THEN <<>>
    ELSE IF Head(s) \in Whitespace THEN TrimStart(Tail(s)) ELSE s

RECURSIVE TrimEnd(_)
TrimEnd(s) ==
    IF s = <<>> THEN <<>>
    ELSE IF s[Len(s)] \in Whitespace THEN TrimEnd(SubSeq(s, 1, Len(s) - 1)) ELSE s

\* String.prototype.trim without the trimming (the mutant of Trim)
Trim_NoTrim(s) == s

\* String.prototype.trim
Trim(s) == TrimEnd(TrimStart(s))

LowerChar(c) ==
    CASE c = "A" -> "a"
      [] c = "B" -> "b"
      [] c = "M" -> "m"
      [] OTHER -> c

\* String.prototype.toLowerCase leaving the case as it is (the mutant of
\* ToLowerCase)
ToLowerCase_Identity(s) == s

\* String.prototype.toLowerCase
ToLowerCase(s) == [i \in 1..Len(s) |-> LowerChar(s[i])]

\* String.prototype.includes
Includes(s, t) ==
    \E i \in 0..(Len(s) - Len(t)) : SubSeq(s, i + 1, i + Len(t)) = t

\* String.prototype.startsWith
StartsWith(s, p) == Len(p) <= Len(s) /\ SubSeq(s, 1, Len(p)) = p

DigitChars == <<"0", "1", "2", "3", "4", "5", "6", "7", "8", "9">>

\* decimal rendering of a non-negative integer
RECURSIVE Digits(_)
Digits(n) ==
    IF n < 10 THEN <<DigitChars[n + 1]>>
    ELSE Digits(n \div 10) \o <<DigitChars[(n % 10) + 1]>>

\* new Date().toLocaleString(): the clock rendered at one-second resolution
ToLocaleString(t) == Digits(t \div TicksPerSecond)

\* ------------------------------------------------------------- JS values
\* A value held in the `memories` cell: what useState([]) starts with or
\* what JSON.parse returned.  items is the element list of an array.
JsArray(items) == [tag |-> "array", items |-> items]
JsObject == [tag |-> "object", items |-> <<>>]
JsNumber == [tag |-> "number", items |-> <<>>]
JsNull == [tag |-> "null", items |-> <<>>]
IsArray(v) == v.tag = "array"

\* the Memory record built by handleAddMemory
Memory(id, text, timestamp) == [id |-> id, text |-> text, timestamp |-> timestamp]

\* ------------------------------------------------------------------ JSON
\* JSON text is a sequence of tokens.
Tok(t, n, s) == [t |-> t, n |-> n, s |-> s]
LBrack == Tok("[", 0, <<>>)
RBrack == Tok("]", 0, <<>>)
LBrace == Tok("{", 0, <<>>)
RBrace == Tok("}", 0, <<>>)
Colon == Tok(":", 0, <<>>)
Comma == Tok(",", 0, <<>>)
NullTok == Tok("null", 0, <<>>)
Num(n) == Tok("num", n, <<>>)
Str(s) == Tok("str", 0, s)

KeyId == <<"i", "d">>
KeyText == <<"t", "e", "x", "t">>
KeyTimestamp == <<"t", "i", "m", "e", "s", "t", "a", "m", "p">>

\* JSON.stringify of one Memory: its own properties in creation order
StringifyMemory(m) ==
    << LBrace, Str(KeyId), Colon, Num(m.id), Comma,
       Str(KeyText), Colon, Str(m.text), Comma,
       Str(KeyTimestamp), Colon, Str(m.timestamp), RBrace >>

RECURSIVE StringifyItems(_)
StringifyItems(items) ==
    IF items = <<>> THEN <<>>
    ELSE IF Len(items) = 1 THEN StringifyMemory(items[1])
    ELSE StringifyMemory(items[1]) \o <<Comma>> \o StringifyItems(Tail(items))

\* JSON.stringify that drops the timestamp property (the mutant of Stringify)
Stringify_NoTimestamp(v) ==
    IF IsArray(v)
    THEN <<LBrack>>
         \o StringifyItems([i \in 1..Len(v.items) |->
                               [v.items[i] EXCEPT !.timestamp = <<>>]])
         \o <<RBrack>>
    ELSE <<NullTok>>

\* JSON.stringify(memories)
Stringify(v) ==
    CASE v.tag = "array" -> <<LBrack>> \o StringifyItems(v.items) \o <<RBrack>>
      [] v.tag = "object" -> <<LBrace, RBrace>>
      [] v.tag = "number" -> <<Num(0)>>
      [] OTHER -> <<NullTok>>

MemoryTokens == 13

\* the 13 tokens at toks[i..i+12] spell one serialized Memory
IsMemoryAt(toks, i) ==
    /\ i + MemoryTokens - 1 <= Len(toks)
    /\ toks[i] = LBrace
    /\ toks[i + 1] = Str(KeyId)
    /\ toks[i + 2] = Colon
    /\ toks[i + 3].t = "num"
    /\ toks[i + 4] = Comma
    /\ toks[i + 5] = Str(KeyText)
    /\ toks[i + 6] = Colon
    /\ toks[i + 7].t = "str"
    /\ toks[i + 8] = Comma
    /\ toks[i + 9] = Str(KeyTimestamp)
    /\ toks[i + 10] = Colon
    /\ toks[i + 11].t = "str"
    /\ toks[i + 12] = RBrace

MemoryAt(toks, i) == Memory(toks[i + 3].n, toks[i + 7].s, toks[i + 11].s)

ParseError == [ok |-> FALSE, value |-> JsNull]
Parsed(v) == [ok |-> TRUE, value |-> v]

\* the elements of an array after its "[": Memory objects separated by
\* commas, closed by "]" at the end of the text
RECURSIVE ParseElements(_, _, _)
ParseElements(toks, i, acc) ==
    IF ~IsMemoryAt(toks, i) THEN ParseError
    ELSE LET j == i + MemoryTokens
             acc2 == Append(acc, MemoryAt(toks, i))
         IN  IF j > Len(toks) THEN ParseError
             ELSE IF toks[j] = RBrack
                  THEN IF j = Len(toks) THEN Parsed(JsArray(acc2)) ELSE ParseError
             ELSE IF toks[j] = Comma THEN ParseElements(toks, j + 1, acc2)
             ELSE ParseError

\* JSON.parse(text): ok = FALSE is the SyntaxError it throws.  Grammar
\* covered: null, a number, the empty object, an array of Memory objects.
JsonParse(toks) ==
    IF toks = <<>> THEN ParseError
    ELSE IF toks = <<NullTok>> THEN Parsed(JsNull)
    ELSE IF Len(toks) = 1 /\ toks[1].t = "num" THEN Parsed(JsNumber)
    ELSE IF toks = <<LBrace, RBrace>> THEN Parsed(JsObject)
    ELSE IF toks = <<LBrack, RBrack>> THEN Parsed(JsArray(<<>>))
    ELSE IF toks[1] = LBrack THEN ParseElements(toks, 2, <<>>)
    ELSE ParseError

\* --------------------------------------------------------- localStorage
\* the 'gajni-memories' entry: getItem returns null when it is absent
Absent == [present |-> FALSE, text |-> <<>>]
Stored(toks) == [present |-> TRUE, text |-> toks]

\* a Memory written by an earlier session (its clock was before this one's)
OldMemory == Memory(0, <<"a">>, ToLocaleString(0))

\* what the entry may hold when the application starts
PersistedValues ==
    { Absent,
      Stored(<<>>),
      Stored(<<LBrack, LBrace>>),
      Stored(<<LBrace, RBrace>>),
      Stored(<<Num(5)>>),
      Stored(<<NullTok>>),
      Stored(Stringify(JsArray(<<>>))),
      Stored(Stringify(JsArray(<<OldMemory>>))) }

\* ---------------------------------------------------------------- inputs
Drafts == { <<" ", "\t">>, <<"a">>, <<"A", "b">> }
Transcripts == { <<"b">> }
SearchTerms == { <<>>, <<"a">>, <<"B">>, <<"m">> }

EnUS == <<"e", "n", "-", "U", "S">>
UrPK == <<"u", "r", "-", "P", "K">>
EnGB == <<"e", "n", "-", "G", "B">>
Languages == { EnUS, UrPK }

Voice(name, lang) == [name |-> name, lang |-> lang]
\* utterance.voice left unset: the platform's default voice
DefaultVoice == Voice("default", <<>>)
PlatformVoicePool ==
    { Voice("v1", EnGB), Voice("v2", EnUS), Voice("v3", EnUS), Voice("v4", UrPK) }

RECURSIVE SeqsUpTo(_, _)
SeqsUpTo(S, n) ==
    IF n = 0 THEN { <<>> }
    ELSE LET shorter == SeqsUpTo(S, n - 1)
         IN  shorter \cup { Append(q, x) : q \in shorter, x \in S }

IsInjective(q) == \A i, j \in 1..Len(q) : q[i] = q[j] => i = j

\* the lists speechSynthesis.getVoices() may return
VoiceLists == { q \in SeqsUpTo(PlatformVoicePool, MaxVoices) : IsInjective(q) }

\* --------------------------------------------------------------- notices
GetItem == "localStorage.getItem"
SetItem == "localStorage.setItem"
AlertNoRecognition == "Sorry, your browser does not support voice recognition."
AlertBlank == "Please enter a memory!"
AlertNoSynthesis == "Sorry, your browser does not support text-to-speech."
LogLoadFailed == "error: Failed to load memories from local storage"
LogSaveFailed == "error: Failed to save memories from local storage"
LogRecognitionError == "error: Speech recognition error"
LogNoVoice == "warn: No voice found for language. Using default."
LogInvalidState == "uncaught: InvalidStateError"
LogTypeError == "uncaught: TypeError"

\* ----------------------------------------------------------------- state
VARIABLES
    phase,          \* "unmounted" | "running" | "crashed" (React unmounted the tree)
    memories,       \* useState([])
    newMemory,      \* useState('')
    searchTerm,     \* useState('')
    isListening,    \* useState(false)
    language,       \* useState('en-US')
    voices,         \* useState([])
    store,          \* localStorage['gajni-memories']
    now,            \* Date.now()
    hasRecognition, \* window.SpeechRecognition || window.webkitSpeechRecognition
    hasSynthesis,   \* 'speechSynthesis' in window
    platformVoices, \* speechSynthesis.getVoices()
    session,        \* the recognition device: "idle" | "capturing" | "stopping" | "ending"
    recogLang,      \* recognition.lang
    utterance,      \* the utterance the synthesis device is speaking
    lastOp,         \* the handler that ran last
    alerts,         \* alert() calls of the last handler
    calls,          \* device and storage calls of the last handler
    logs,           \* console output of the last handler
    writeFailures   \* setItem calls that have thrown so far

vars == << phase, memories, newMemory, searchTerm, isListening, language, voices,
           store, now, hasRecognition, hasSynthesis, platformVoices, session,
           recogLang, utterance, lastOp, alerts, calls, logs, writeFailures >>

NoUtterance == [active |-> FALSE, text |-> <<>>, voice |-> DefaultVoice]

Init ==
    /\ phase = "unmounted"
    /\ memories = JsArray(<<>>)
    /\ newMemory = <<>>
    /\ searchTerm = <<>>
    /\ isListening = FALSE
    /\ language = EnUS
    /\ voices = <<>>
    /\ store \in PersistedValues
    /\ now = 1
    /\ hasRecognition \in BOOLEAN
    /\ hasSynthesis \in BOOLEAN
    /\ platformVoices \in VoiceLists
    /\ session = "idle"
    /\ recogLang = <<>>
    /\ utterance = NoUtterance
    /\ lastOp = "none"
    /\ alerts = <<>>
    /\ calls = <<>>
    /\ logs = <<>>
    /\ writeFailures = 0

\* ---------------------------------------------------------------- render
\* memories.filter(memory => memory.text.toLowerCase().includes(searchTerm.toLowerCase()))
FilteredMemories(mem, term) ==
    SelectSeq(mem.items, LAMBDA m : Includes(ToLowerCase(m.text), ToLowerCase(term)))

\* the render throws when memories has no filter method
RenderThrows(mem) == ~IsArray(mem)

\* the memory-list JSX with the searchTerm test inverted (the mutant of Render)
Render_Inverted(mem, term) ==
    LET filtered == FilteredMemories(mem, term)
    IN  [ items |-> filtered,
          noResults |-> Len(filtered) = 0 /\ term = <<>>,
          emptyState |-> Len(filtered) = 0 /\ term # <<>> ]

\* the memory-list JSX: the items, or one of the two messages
Render(mem, term) ==
    LET filtered == FilteredMemories(mem, term)
    IN  IF Len(filtered) > 0
        THEN [ items |-> filtered, noResults |-> FALSE, emptyState |-> FALSE ]
        ELSE IF term # <<>>
             THEN [ items |-> <<>>, noResults |-> TRUE, emptyState |-> FALSE ]
             ELSE [ items |-> <<>>, noResults |-> FALSE, emptyState |-> TRUE ]

View == Render(memories, searchTerm)

\* --------------------------------------------------------------- effects
\* the load effect: what it passes to setMemories, and what it logs
LoadEffect(st, readOk) ==
    IF ~readOk
    THEN [ set |-> FALSE, value |-> JsNull, logs |-> <<LogLoadFailed>> ]
    ELSE IF ~st.present \/ st.text = <<>>
    THEN [ set |-> FALSE, value |-> JsNull, logs |-> <<>> ]
    ELSE LET p == JsonParse(st.text)
         IN  IF p.ok
             THEN [ set |-> TRUE, value |-> p.value, logs |-> <<>> ]
             ELSE [ set |-> FALSE, value |-> JsNull, logs |-> <<LogLoadFailed>> ]

\* the save effect: the entry afterwards, and what it logs; setItem throws
\* (quota, storage disabled) when writeOk is FALSE
SaveEffect(mem, st, writeOk) ==
    IF writeOk
    THEN [ store |-> Stored(Stringify(mem)), logs |-> <<>> ]
    ELSE [ store |-> st, logs |-> <<LogSaveFailed>> ]

\* whether setItem may throw once more in this run
WriteOutcomes(failed) == IF failed < MaxWriteFailures THEN BOOLEAN ELSE { TRUE }

Failures(writeOk) == IF writeOk THEN 0 ELSE 1

\* loadVoices without the length test (the mutant of LoadVoices)
LoadVoices_Always(held, available) == available

\* loadVoices: setVoices only when the platform's list is not empty
LoadVoices(held, available) == IF Len(available) > 0 THEN available ELSE held

\* ------------------------------------------------------ device helpers
\* recognition.start(): a session that has not delivered its end event makes
\* start() throw InvalidStateError
StartThrows(sess) == sess # "idle"

\* recognition.stop(): the device stops capturing and may still return a
\* result for the audio captured so far
AfterStop(sess) == IF sess = "capturing" THEN "stopping" ELSE sess

\* voices.find(...) taking the last match (the mutant of FindVoice)
FindVoice_Last(vs, lang) ==
    LET hits == { i \in 1..Len(vs) : StartsWith(vs[i].lang, lang) }
    IN  IF hits = {} THEN [ found |-> FALSE, voice |-> DefaultVoice ]
        ELSE [ found |-> TRUE,
               voice |-> vs[CHOOSE i \in hits : \A j \in hits : j <= i] ]

\* voices.find(voice => voice.lang.startsWith(language))
FindVoice(vs, lang) ==
    LET hits == SelectSeq(vs, LAMBDA v : StartsWith(v.lang, lang))
    IN  IF hits = <<>> THEN [ found |-> FALSE, voice |-> DefaultVoice ]
        ELSE [ found |-> TRUE, voice |-> Head(hits) ]

\* --------------------------------------------------------------- actions
\* First render and the mount effects, in declaration order: voices,
\* recognition handlers, load, save; then the re-render that setMemories
\* asked for and the save effect of that render.  An effect or a render
\* that throws makes React unmount the tree.
Mount ==
    /\ phase = "unmounted"
    /\ lastOp' = "mount"
    /\ alerts' = <<>>
    /\ UNCHANGED << newMemory, searchTerm, isListening, language, now, hasRecognition,
                    hasSynthesis, platformVoices, session, recogLang, utterance >>
    /\ IF ~hasSynthesis
       THEN /\ phase' = "crashed"
            /\ logs' = <<LogTypeError>>
            /\ calls' = <<>>
            /\ UNCHANGED << memories, voices, store, writeFailures >>
       ELSE \E readOk \in BOOLEAN, writeOk1 \in WriteOutcomes(writeFailures) :
            LET load == LoadEffect(store, readOk)
                save1 == SaveEffect(memories, store, writeOk1)
                failed1 == writeFailures + Failures(writeOk1)
                mem2 == IF load.set THEN load.value ELSE memories
            IN  /\ voices' = LoadVoices(voices, platformVoices)
                /\ memories' = mem2
                /\ IF load.set /\ RenderThrows(mem2)
                   THEN /\ phase' = "crashed"
                        /\ store' = save1.store
                        /\ logs' = load.logs \o save1.logs \o <<LogTypeError>>
                        /\ calls' = <<GetItem, SetItem>>
                        /\ writeFailures' = failed1
                   ELSE IF load.set
                   THEN \E writeOk2 \in WriteOutcomes(failed1) :
                        LET save2 == SaveEffect(mem2, save1.store, writeOk2)
                        IN  /\ phase' = "running"
                            /\ store' = save2.store
                            /\ logs' = load.logs \o save1.logs \o save2.logs
                            /\ calls' = <<GetItem, SetItem, SetItem>>
                            /\ writeFailures' = failed1 + Failures(writeOk2)
                   ELSE /\ phase' = "running"
                        /\ store' = save1.store
                        /\ logs' = load.logs \o save1.logs
                        /\ calls' = <<GetItem, SetItem>>
                        /\ writeFailures' = failed1

\* The same start under React.StrictMode: the mount effects run, are torn
\* down and run a second time before the re-render.  Both passes see the
\* initial empty list; the second load reads what the first save wrote, and
\* the setMemories calls are applied in the order they were made.
MountStrict ==
    /\ phase = "unmounted"
    /\ lastOp' = "mountStrict"
    /\ alerts' = <<>>
    /\ UNCHANGED << newMemory, searchTerm, isListening, language, now, hasRecognition,
                    hasSynthesis, platformVoices, session, recogLang, utterance >>
    /\ IF ~hasSynthesis
       THEN /\ phase' = "crashed"
            /\ logs' = <<LogTypeError>>
            /\ calls' = <<>>
            /\ UNCHANGED << memories, voices, store, writeFailures >>
       ELSE \E readOk1 \in BOOLEAN, readOk2 \in BOOLEAN,
               writeOk1 \in WriteOutcomes(writeFailures) :
            LET load1 == LoadEffect(store, readOk1)
                save1 == SaveEffect(memories, store, writeOk1)
                failed1 == writeFailures + Failures(writeOk1)
                load2 == LoadEffect(save1.store, readOk2)
            IN  \E writeOk2 \in WriteOutcomes(failed1) :
                LET save2 == SaveEffect(memories, save1.store, writeOk2)
                    failed2 == failed1 + Failures(writeOk2)
                    mem1 == IF load1.set THEN load1.value ELSE memories
                    mem2 == IF load2.set THEN load2.value ELSE mem1
                    passes == load1.logs \o save1.logs \o load2.logs \o save2.logs
                IN  /\ voices' = LoadVoices(LoadVoices(voices, platformVoices), platformVoices)
                    /\ memories' = mem2
                    /\ IF (load1.set \/ load2.set) /\ RenderThrows(mem2)
                       THEN /\ phase' = "crashed"
                            /\ store' = save2.store
                            /\ logs' = passes \o <<LogTypeError>>
                            /\ calls' = <<GetItem, SetItem, GetItem, SetItem>>
                            /\ writeFailures' = failed2
                       ELSE IF load1.set \/ load2.set
                       THEN \E writeOk3 \in WriteOutcomes(failed2) :
                            LET save3 == SaveEffect(mem2, save2.store, writeOk3)
                            IN  /\ phase' = "running"
                                /\ store' = save3.store
                                /\ logs' = passes \o save3.logs
                                /\ calls' = <<GetItem, SetItem, GetItem, SetItem, SetItem>>
                                /\ writeFailures' = failed2 + Failures(writeOk3)
                       ELSE /\ phase' = "running"
                            /\ store' = save2.store
                            /\ logs' = passes
                            /\ calls' = <<GetItem, SetItem, GetItem, SetItem>>
                            /\ writeFailures' = failed2

\* the clock advances
Tick ==
    /\ phase = "running"
    /\ UNCHANGED writeFailures
    /\ now < MaxClock
    /\ now' = now + 1
    /\ lastOp' = "tick"
    /\ alerts' = <<>>
    /\ calls' = <<>>
    /\ logs' = <<>>
    /\ UNCHANGED << phase, memories, newMemory, searchTerm, isListening, language,
                    voices, store, hasRecognition, hasSynthesis, platformVoices,
                    session, recogLang, utterance >>

\* typing in the draft input
SetNewMemory ==
    /\ phase = "running"
    /\ UNCHANGED writeFailures
    /\ \E d \in Drafts : newMemory' = d
    /\ lastOp' = "setNewMemory"
    /\ alerts' = <<>>
    /\ calls' = <<>>
    /\ logs' = <<>>
    /\ UNCHANGED << phase, memories, searchTerm, isListening, language, voices, store,
                    now, hasRecognition, hasSynthesis, platformVoices, session,
                    recogLang, utterance >>

\* typing in the search input
SetSearchTerm ==
    /\ phase = "running"
    /\ UNCHANGED writeFailures
    /\ \E t \in SearchTerms : searchTerm' = t
    /\ lastOp' = "setSearchTerm"
    /\ alerts' = <<>>
    /\ calls' = <<>>
    /\ logs' = <<>>
    /\ UNCHANGED << phase, memories, newMemory, isListening, language, voices, store,
                    now, hasRecognition, hasSynthesis, platformVoices, session,
                    recogLang, utterance >>

\* the language selector
SetLanguage ==
    /\ phase = "running"
    /\ UNCHANGED writeFailures
    /\ \E l \in Languages : language' = l
    /\ lastOp' = "setLanguage"
    /\ alerts' = <<>>
    /\ calls' = <<>>
    /\ logs' = <<>>
    /\ UNCHANGED << phase, memories, newMemory, searchTerm, isListening, voices, store,
                    now, hasRecognition, hasSynthesis, platformVoices, session,
                    recogLang, utterance >>

\* the form's submit putting the new memory last (the mutant of
\* HandleAddMemory)
HandleAddMemory_Append ==
    /\ phase = "running"
    /\ lastOp' = "handleAddMemory"
    /\ UNCHANGED << phase, searchTerm, isListening, language, voices, now,
                    hasRecognition, hasSynthesis, platformVoices, session, recogLang,
                    utterance >>
    /\ IF Trim(newMemory) = <<>>
       THEN /\ alerts' = <<AlertBlank>>
            /\ logs' = <<>>
            /\ calls' = <<>>
            /\ UNCHANGED << memories, newMemory, store, writeFailures >>
       ELSE /\ Len(memories.items) < MaxMemories
            /\ \E writeOk \in WriteOutcomes(writeFailures) :
                LET memory == Memory(now, newMemory, ToLocaleString(now))
                    mem2 == JsArray(Append(memories.items, memory))
                    save == SaveEffect(mem2, store, writeOk)
                IN  /\ memories' = mem2
                    /\ newMemory' = <<>>
                    /\ store' = save.store
                    /\ logs' = save.logs
                    /\ alerts' = <<>>
                    /\ calls' = <<SetItem>>
                    /\ writeFailures' = writeFailures + Failures(writeOk)

\* the form's submit, then the re-render and its save effect
HandleAddMemory ==
    /\ phase = "running"
    /\ lastOp' = "handleAddMemory"
    /\ UNCHANGED << phase, searchTerm, isListening, language, voices, now,
                    hasRecognition, hasSynthesis, platformVoices, session, recogLang,
                    utterance >>
    /\ IF Trim(newMemory) = <<>>
       THEN /\ alerts' = <<AlertBlank>>
            /\ logs' = <<>>
            /\ calls' = <<>>
            /\ UNCHANGED << memories, newMemory, store, writeFailures >>
       ELSE /\ Len(memories.items) < MaxMemories
            /\ \E writeOk \in WriteOutcomes(writeFailures) :
                LET memory == Memory(now, newMemory, ToLocaleString(now))
                    mem2 == JsArray(<<memory>> \o memories.items)
                    save == SaveEffect(mem2, store, writeOk)
                IN  /\ memories' = mem2
                    /\ newMemory' = <<>>
                    /\ store' = save.store
                    /\ logs' = save.logs
                    /\ alerts' = <<>>
                    /\ calls' = <<SetItem>>
                    /\ writeFailures' = writeFailures + Failures(writeOk)

\* memories.filter(memory => memory.id !== idToDelete)
WithoutId(items, idToDelete) == SelectSeq(items, LAMBDA m : m.id # idToDelete)

\* a rendered item's Delete button, then the re-render and its save effect
HandleDeleteMemory ==
    /\ phase = "running"
    /\ lastOp' = "handleDeleteMemory"
    /\ calls' = <<SetItem>>
    /\ alerts' = <<>>
    /\ UNCHANGED << phase, newMemory, searchTerm, isListening, language, voices, now,
                    hasRecognition, hasSynthesis, platformVoices, session, recogLang,
                    utterance >>
    /\ \E i \in 1..Len(View.items), writeOk \in WriteOutcomes(writeFailures) :
        LET mem2 == JsArray(WithoutId(memories.items, View.items[i].id))
            save == SaveEffect(mem2, store, writeOk)
        IN  /\ memories' = mem2
            /\ store' = save.store
            /\ logs' = save.logs
            /\ writeFailures' = writeFailures + Failures(writeOk)

\* the mic button without the early return after the alert (the mutant of
\* HandleListen)
HandleListen_NoReturn ==
    /\ phase = "running"
    /\ UNCHANGED writeFailures
    /\ lastOp' = "handleListen"
    /\ logs' = <<>>
    /\ alerts' = IF hasRecognition THEN <<>> ELSE <<AlertNoRecognition>>
    /\ recogLang' = language
    /\ session' = IF isListening THEN AfterStop(session) ELSE "capturing"
    /\ calls' = IF isListening THEN <<"recognition.lang=", "recognition.stop">>
                ELSE <<"recognition.lang=", "recognition.start">>
    /\ isListening' = ~isListening
    /\ UNCHANGED << phase, memories, newMemory, searchTerm, language, voices, store,
                    now, hasRecognition, hasSynthesis, platformVoices, utterance >>

\* the mic button
HandleListen ==
    /\ phase = "running"
    /\ UNCHANGED writeFailures
    /\ lastOp' = "handleListen"
    /\ UNCHANGED << phase, memories, newMemory, searchTerm, language, voices, store,
                    now, hasRecognition, hasSynthesis, platformVoices, utterance >>
    /\ IF ~hasRecognition
       THEN /\ alerts' = <<AlertNoRecognition>>
            /\ calls' = <<>>
            /\ logs' = <<>>
            /\ UNCHANGED << isListening, session, recogLang >>
       ELSE /\ alerts' = <<>>
            /\ recogLang' = language
            /\ IF isListening
               THEN /\ calls' = <<"recognition.lang=", "recognition.stop">>
                    /\ session' = AfterStop(session)
                    /\ isListening' = FALSE
                    /\ logs' = <<>>
               ELSE /\ calls' = <<"recognition.lang=", "recognition.start">>
                    /\ IF StartThrows(session)
                       THEN /\ logs' = <<LogInvalidState>>
                            /\ UNCHANGED << isListening, session >>
                       ELSE /\ logs' = <<>>
                            /\ session' = "capturing"
                            /\ isListening' = TRUE

\* recognition.onresult: the device delivers the final transcript
OnResult ==
    /\ phase = "running"
    /\ UNCHANGED writeFailures
    /\ hasRecognition
    /\ session \in { "capturing", "stopping" }
    /\ \E transcript \in Transcripts : newMemory' = transcript
    /\ isListening' = FALSE
    /\ session' = "ending"
    /\ lastOp' = "onresult"
    /\ alerts' = <<>>
    /\ calls' = <<>>
    /\ logs' = <<>>
    /\ UNCHANGED << phase, memories, searchTerm, language, voices, store, now,
                    hasRecognition, hasSynthesis, platformVoices, recogLang, utterance >>

\* recognition.onerror
OnError ==
    /\ phase = "running"
    /\ UNCHANGED writeFailures
    /\ hasRecognition
    /\ session \in { "capturing", "stopping" }
    /\ isListening' = FALSE
    /\ session' = "ending"
    /\ lastOp' = "onerror"
    /\ alerts' = <<>>
    /\ calls' = <<>>
    /\ logs' = <<LogRecognitionError>>
    /\ UNCHANGED << phase, memories, newMemory, searchTerm, language, voices, store,
                    now, hasRecognition, hasSynthesis, platformVoices, recogLang,
                    utterance >>

\* recognition.onend: the session is over
OnEnd ==
    /\ phase = "running"
    /\ UNCHANGED writeFailures
    /\ hasRecognition
    /\ session # "idle"
    /\ isListening' = FALSE
    /\ session' = "idle"
    /\ lastOp' = "onend"
    /\ alerts' = <<>>
    /\ calls' = <<>>
    /\ logs' = <<>>
    /\ UNCHANGED << phase, memories, newMemory, searchTerm, language, voices, store,
                    now, hasRecognition, hasSynthesis, platformVoices, recogLang,
                    utterance >>

\* speechSynthesis.onvoiceschanged = loadVoices
VoicesChanged ==
    /\ phase = "running"
    /\ UNCHANGED writeFailures
    /\ hasSynthesis
    /\ \E available \in VoiceLists :
        /\ platformVoices' = available
        /\ voices' = LoadVoices(voices, available)
    /\ lastOp' = "onvoiceschanged"
    /\ alerts' = <<>>
    /\ calls' = <<>>
    /\ logs' = <<>>
    /\ UNCHANGED << phase, memories, newMemory, searchTerm, isListening, language,
                    store, now, hasRecognition, hasSynthesis, session, recogLang,
                    utterance >>

\* a rendered item's Speak button
HandleSpeak ==
    /\ phase = "running"
    /\ UNCHANGED writeFailures
    /\ lastOp' = "handleSpeak"
    /\ UNCHANGED << phase, memories, newMemory, searchTerm, isListening, language,
                    voices, store, now, hasRecognition, hasSynthesis, platformVoices,
                    session, recogLang >>
    /\ \E i \in 1..Len(View.items) :
        IF hasSynthesis
        THEN LET selectedVoice == FindVoice(voices, language)
             IN  /\ calls' = <<"speechSynthesis.cancel", "speechSynthesis.speak">>
                 /\ utterance' = [ active |-> TRUE, text |-> View.items[i].text,
                                   voice |-> selectedVoice.voice ]
                 /\ logs' = IF selectedVoice.found THEN <<>> ELSE <<LogNoVoice>>
                 /\ alerts' = <<>>
        ELSE /\ alerts' = <<AlertNoSynthesis>>
             /\ calls' = <<>>
             /\ logs' = <<>>
             /\ UNCHANGED utterance

\* --------------------------------------------------------- specifications
\* Next is the whole application.  The store, the recognition controller
\* and the synthesis controller share only the draft and the language, so
\* the properties are checked under the specifications below, each of which
\* keeps the actions of one controller and fixes the inputs of the others.
Next ==
    \/ Mount
    \/ MountStrict
    \/ Tick
    \/ SetNewMemory
    \/ SetSearchTerm
    \/ SetLanguage
    \/ HandleAddMemory
    \/ HandleDeleteMemory
    \/ HandleListen
    \/ OnResult
    \/ OnError
    \/ OnEnd
    \/ VoicesChanged
    \/ HandleSpeak

Spec == Init /\ [][Next]_vars

\* The memory store alone: no recognition device, no platform voices, the
\* search input left empty.
InitStore == Init /\ ~hasRecognition /\ platformVoices = <<>>

NextStore ==
    \/ Mount
    \/ Tick
    \/ SetNewMemory
    \/ HandleAddMemory
    \/ HandleDeleteMemory

SpecStore == InitStore /\ [][NextStore]_vars

\* The memory store with both ways the application can start.
NextStartup ==
    \/ Mount
    \/ MountStrict
    \/ Tick
    \/ SetNewMemory
    \/ HandleAddMemory
    \/ HandleDeleteMemory

SpecStartup == InitStore /\ [][NextStartup]_vars

\* The board view: the store with the search input, the clock standing still.
NextView ==
    \/ Mount
    \/ SetNewMemory
    \/ SetSearchTerm
    \/ HandleAddMemory
    \/ HandleDeleteMemory

SpecView == InitStore /\ [][NextView]_vars

\* The recognition controller alone: nothing persisted, no platform voices.
InitListen == Init /\ store = Absent /\ platformVoices = <<>>

NextListen ==
    \/ Mount
    \/ SetNewMemory
    \/ SetLanguage
    \/ HandleListen
    \/ OnResult
    \/ OnError
    \/ OnEnd

SpecListen == InitListen /\ [][NextListen]_vars

\* a session the device has started always delivers its end event
SpecListenFair == SpecListen /\ WF_vars(OnEnd)

\* The synthesis controller alone: one persisted memory to play.
InitSpeak ==
    /\ Init
    /\ ~hasRecognition
    /\ store \in { Absent, Stored(Stringify(JsArray(<<OldMemory>>))) }

NextSpeak ==
    \/ Mount
    \/ SetLanguage
    \/ VoicesChanged
    \/ HandleSpeak

SpecSpeak == InitSpeak /\ [][NextSpeak]_vars

\* The entry form: draft, search and the recognition controller
\* around the submit, on a platform with both speech capabilities and
\* nothing persisted.
InitBoard ==
    /\ Init
    /\ hasRecognition
    /\ hasSynthesis
    /\ platformVoices = <<>>
    /\ store = Absent

NextBoard ==
    \/ Mount
    \/ SetNewMemory
    \/ SetSearchTerm
    \/ HandleListen
    \/ OnResult
    \/ OnEnd
    \/ HandleAddMemory

SpecBoard == InitBoard /\ [][NextBoard]_vars

\* ---------------------------------------------------------------- claims
Items == memories.items

\* getItem and JSON.parse of the entry, as the next start of the application
\* would read it
Reload(st) ==
    LET load == LoadEffect(st, TRUE)
    IN  IF load.set THEN load.value ELSE JsArray(<<>>)

IsBlank(s) == \A i \in 1..Len(s) : s[i] \in { " ", "\t" }

RemoveAt(q, k) == SubSeq(q, 1, k - 1) \o SubSeq(q, k + 1, Len(q))

AddedMemory == lastOp = "handleAddMemory" /\ alerts = <<>>

\* C1: the list is newest first (ids never increase from head to tail, the
\* clock never running backwards) and no two records share an id.
C1_NewestFirstUniqueIds ==
    IsArray(memories) =>
        /\ \A i, j \in 1..Len(Items) : i < j => Items[i].id >= Items[j].id
        /\ \A i, j \in 1..Len(Items) : i # j => Items[i].id # Items[j].id

\* the ordering half of C1 on its own
NewestFirst ==
    IsArray(memories) =>
        \A i, j \in 1..Len(Items) : i < j => Items[i].id >= Items[j].id

\* C2: a delete removes exactly one record and keeps the others as they
\* were, in the same order.
C2_DeleteRemovesExactlyOne ==
    [][ lastOp' = "handleDeleteMemory" =>
          /\ Len(memories'.items) = Len(Items) - 1
          /\ \E k \in 1..Len(Items) : memories'.items = RemoveAt(Items, k) ]_vars

\* C2 where it does hold: from a list without duplicate ids
DeleteRemovesOneWhenIdsUnique ==
    [][ (lastOp' = "handleDeleteMemory"
           /\ \A i, j \in 1..Len(Items) : i # j => Items[i].id # Items[j].id) =>
          \E k \in 1..Len(Items) : memories'.items = RemoveAt(Items, k) ]_vars

\* C3 as stated: after an add or a delete and its save effect, reloading the
\* entry gives the in-memory collection, whether or not the write failed.
C3_ReloadEqualsMemory ==
    (phase = "running" /\ (AddedMemory \/ lastOp = "handleDeleteMemory")) =>
        Reload(store) = memories

\* C3 amended: after an add or a delete and its save effect, reloading the
\* entry gives the in-memory collection when the write succeeded; when the
\* write failed the entry keeps the value it had.
C3_ReloadEqualsMemoryWhenWritten ==
    [][ ((lastOp' = "handleAddMemory" /\ alerts' = <<>>)
           \/ lastOp' = "handleDeleteMemory") =>
          IF logs' = <<>>
          THEN Reload(store') = memories'
          ELSE store' = store /\ logs' = <<LogSaveFailed>> ]_vars

C3_Witness ==
    /\ AddedMemory
    /\ logs = <<>>
    /\ Len(Items) >= 2
    /\ Reload(store) = memories

\* C4: a submit with an empty or whitespace-only draft changes neither the
\* collection, the draft nor the entry, and alerts.
C4_BlankSubmitChangesNothing ==
    [][ (lastOp' = "handleAddMemory" /\ IsBlank(newMemory)) =>
          /\ memories' = memories
          /\ newMemory' = newMemory
          /\ store' = store
          /\ alerts' = <<AlertBlank>> ]_vars

C4_Witness ==
    /\ lastOp = "handleAddMemory"
    /\ alerts = <<AlertBlank>>
    /\ newMemory = <<" ", "\t">>
    /\ Len(Items) > 0

\* C5: whatever the entry holds at startup, the load leaves the collection
\* an array (the stored one or the empty one) and the application running.
C5_LoadNeverFatal ==
    (hasSynthesis /\ lastOp = "mount") =>
        /\ phase = "running"
        /\ IsArray(memories)

\* C6: after the user's explicit stop, a result event does not change the
\* draft.
C6_StopDiscardsUtterance ==
    [][ (session = "stopping" /\ lastOp' = "onresult") =>
          newMemory' = newMemory ]_vars

\* C7: without the recognition capability the listening flag is false in
\* every state, and a toggle alerts and touches no device.
C7_NoRecognitionToggle ==
    ~hasRecognition =>
        /\ isListening = FALSE
        /\ session = "idle"
        /\ recogLang = <<>>
        /\ lastOp = "handleListen" =>
              (alerts = <<AlertNoRecognition>> /\ calls = <<>>)

C7_Witness ==
    /\ ~hasRecognition
    /\ phase = "running"
    /\ lastOp = "handleListen"
    /\ alerts = <<AlertNoRecognition>>

NoMatches == Len(FilteredMemories(memories, searchTerm)) = 0

\* C8 as stated: zero memories shows "No memories yet", zero matches under a
\* non-empty filter shows "No memories found", never both, neither when a
\* memory matches.
C8_EmptyStates ==
    phase = "running" =>
        /\ Len(Items) = 0 => View.emptyState
        /\ (NoMatches /\ searchTerm # <<>>) => View.noResults
        /\ ~(View.emptyState /\ View.noResults)
        /\ ~NoMatches => (~View.emptyState /\ ~View.noResults)

\* C8 amended: zero memories with an empty filter shows "No memories yet";
\* zero matches under a non-empty filter (an empty collection included)
\* shows "No memories found"; never both; neither when a memory matches.
C8_EmptyStatesAmended ==
    phase = "running" =>
        /\ (Len(Items) = 0 /\ searchTerm = <<>>) => View.emptyState
        /\ (NoMatches /\ searchTerm # <<>>) => View.noResults
        /\ ~(View.emptyState /\ View.noResults)
        /\ ~NoMatches => (~View.emptyState /\ ~View.noResults)

C8_Witness ==
    /\ phase = "running"
    /\ Len(Items) = 0
    /\ searchTerm # <<>>
    /\ View.noResults
    /\ lastOp = "handleDeleteMemory"

\* C9: without speech synthesis the application starts and keeps running,
\* and speak alerts and makes no device call.
C9_NoSynthesisStillUsable ==
    ~hasSynthesis =>
        /\ phase # "crashed"
        /\ lastOp = "handleSpeak" =>
              (alerts = <<AlertNoSynthesis>> /\ calls = <<>>)

Matching == { i \in 1..Len(voices) : StartsWith(voices[i].lang, language) }

\* C10: speak cancels, then speaks once, with the first held voice whose
\* locale starts with the selected language, or with the default voice and
\* a warning when there is none; nothing is thrown.
C10_SpeakSelectsFirstMatchingVoice ==
    lastOp = "handleSpeak" =>
        /\ calls = <<"speechSynthesis.cancel", "speechSynthesis.speak">>
        /\ alerts = <<>>
        /\ utterance.active
        /\ IF Matching # {}
           THEN /\ \E i \in Matching :
                     /\ \A j \in Matching : i <= j
                     /\ utterance.voice = voices[i]
                /\ logs = <<>>
           ELSE /\ utterance.voice = DefaultVoice
                /\ logs = <<LogNoVoice>>

C10_Witness ==
    /\ lastOp = "handleSpeak"
    /\ Cardinality(Matching) = 2
    /\ utterance.voice = voices[1]
    /\ language = EnUS

\* the same letter, whatever the case
CasePairs == { <<"a", "A">>, <<"b", "B">>, <<"m", "M">> }
SameLetter(c, d) == c = d \/ <<c, d>> \in CasePairs \/ <<d, c>> \in CasePairs

\* term occurs in text at some offset, letters compared without their case
ContainsIgnoringCase(text, term) ==
    \E off \in 0..(Len(text) - Len(term)) :
        \A k \in 1..Len(term) : SameLetter(text[off + k], term[k])

\* C11: the displayed list is the memories whose text contains the filter,
\* compared case-insensitively, in the collection's order; the empty filter
\* keeps them all.
C11_FilterIsCaseInsensitiveSubstring ==
    phase = "running" =>
        /\ View.items =
             SelectSeq(Items, LAMBDA m : ContainsIgnoringCase(m.text, searchTerm))
        /\ searchTerm = <<>> => View.items = Items

C11_Witness ==
    /\ phase = "running"
    /\ searchTerm = <<"B">>
    /\ Len(Items) = 3
    /\ Len(View.items) = 1
    /\ View.items[1].text = <<"A", "b">>
    /\ Items[2] = View.items[1]

DeviceEvents == { "onresult", "onerror", "onend" }

\* C12: the flag starts Idle; with the device available a toggle flips it
\* (Idle to Listening, Listening to Idle); result, error and end leave it Idle.
C12_ListeningStateMachine ==
    /\ isListening = FALSE
    /\ [][ /\ (lastOp' = "handleListen" /\ hasRecognition) =>
                isListening' = ~isListening
           /\ lastOp' \in DeviceEvents => isListening' = FALSE ]_vars

\* the liveness half of C12: with the end event delivered, Listening is
\* always followed by Idle
ListeningLeadsToIdle == isListening ~> ~isListening

\* the device events' half of C12 on its own
DeviceEventsLeaveIdle == [][ lastOp' \in DeviceEvents => isListening' = FALSE ]_vars

\* C13: a submit with a non-blank draft puts one new Memory holding the
\* draft at the head, keeps the records that were there in their order,
\* clears the draft and leaves the filter, the language and the listening
\* flag as they were.
C13_AddPrependsOneMemory ==
    [][ (lastOp' = "handleAddMemory" /\ ~IsBlank(newMemory)) =>
          /\ Len(memories'.items) = Len(Items) + 1
          /\ memories'.items[1].text = newMemory
          /\ memories'.items[1].id = now
          /\ SubSeq(memories'.items, 2, Len(Items) + 1) = Items
          /\ newMemory' = <<>>
          /\ alerts' = <<>>
          /\ searchTerm' = searchTerm
          /\ language' = language
          /\ isListening' = isListening ]_vars

C13_Witness ==
    /\ AddedMemory
    /\ Len(Items) = 3
    /\ Items[1].text = <<"b">>
    /\ Items[2].text = <<"A", "b">>
    /\ isListening
    /\ searchTerm = <<"m">>

Count(q, x) == Cardinality({ i \in 1..Len(q) : q[i] = x })

\* the load effect passed a parsed value to setMemories in this step
Seeded == store.present /\ store.text # <<>> /\ Count(logs', LogLoadFailed) = 0

ChangedCollection ==
    \/ lastOp' = "handleAddMemory" /\ alerts' = <<>>
    \/ lastOp' = "handleDeleteMemory"

\* reads and writes of one step, as C14 counts them: one read, at the start
\* only; one write after each change of the collection (the mount's own
\* save of the initial list apart), carrying the whole current collection;
\* no write without a change; the entry never holds anything but a whole
\* serialized collection or what it held before
ReadsAndWrites ==
    /\ Count(calls', GetItem) = IF lastOp' = "mount" THEN 1 ELSE 0
    /\ ChangedCollection => Count(calls', SetItem) = 1
    /\ lastOp' = "mount" => Count(calls', SetItem) = IF Seeded THEN 2 ELSE 1
    /\ (~ChangedCollection /\ lastOp' # "mount") => Count(calls', SetItem) = 0
    /\ (ChangedCollection \/ (lastOp' = "mount" /\ Seeded)) =>
          (Count(logs', LogSaveFailed) = 0 => store' = Stored(Stringify(memories')))
    /\ \/ store' = store
       \/ store' = Stored(Stringify(memories'))
       \/ lastOp' = "mount" /\ store' = Stored(Stringify(JsArray(<<>>)))

\* C14: the entry is read once, at the start, and every change of the
\* collection (add, delete, seeding) is followed by exactly one write of
\* the whole current collection.
C14_ReadOnceWriteOncePerChange == [][ ReadsAndWrites ]_vars

\* C14 where it does hold: on the steps that leave the application running
ReadsAndWritesWhileRunning == [][ phase' = "running" => ReadsAndWrites ]_vars

VoicesRefreshed ==
    \/ lastOp' = "mount" /\ phase' = "running"
    \/ lastOp' = "onvoiceschanged"

\* C15 as stated: once started, the held voice list is the platform's list,
\* an empty platform list included.
C15_HeldVoicesEqualPlatform ==
    phase = "running" => voices = platformVoices

\* C15 amended: after startup and after every voice-list-change
\* notification the held list is the platform's list when that list is not
\* empty; when it is empty the held list keeps the value it had.
C15_HeldVoicesFollowNonEmptyPlatform ==
    [][ VoicesRefreshed =>
          IF platformVoices' # <<>>
          THEN voices' = platformVoices'
          ELSE voices' = voices ]_vars

C15_Witness ==
    /\ lastOp = "onvoiceschanged"
    /\ platformVoices = <<>>
    /\ Len(voices) = 2

\* the flag is true whenever the device has an active capture session
FlagCoversCapture == [](session = "capturing" => isListening)

\* C16: the listening flag agrees with the device over every interleaving
\* of toggles and device events: while the device captures the flag is
\* true, and start() is only ever called on a device whose previous session
\* has delivered its end event.
C16_FlagAgreesWithDevice ==
    /\ [](session = "capturing" => isListening)
    /\ [][ (lastOp' = "handleListen" /\ Count(calls', "recognition.start") > 0)
              => session = "idle" ]_vars

Startups == { "mount", "mountStrict" }

\* the store holds a valid serialized array before the application starts
HoldsArray ==
    /\ store.present
    /\ store.text # <<>>
    /\ JsonParse(store.text).ok
    /\ IsArray(JsonParse(store.text).value)

\* C17: a start during which nothing fails, over a store that holds a valid
\* serialized array, leaves both the in-memory collection and the persisted
\* value equal to that array, whether the mount effects run once or twice
\* before the re-render.
C17_StartupKeepsPersisted ==
    [][ (lastOp' \in Startups /\ logs' = <<>> /\ HoldsArray) =>
          /\ memories' = JsonParse(store.text).value
          /\ store' = store ]_vars

\* C17 for the single pass of the mount effects
SinglePassKeepsPersisted ==
    [][ (lastOp' = "mount" /\ logs' = <<>> /\ HoldsArray) =>
          /\ memories' = JsonParse(store.text).value
          /\ store' = store ]_vars

====
